---- MODULE Spec2Model ----
(***************************************************************************)
(* Asynchronous data export of JourneyApp-Server:                          *)
(*   internal/handlers/export-data-handler.go        (ExportData,          *)
(*       runExportJob, recalculateAndPersistProgress, save/load)           *)
(*   internal/handlers/get_export_progress_handler.go (ExportProgress)     *)
(*   DownloadExportedData                                                  *)
(* Redis holds one JSON document per job under export_job:<jobID> with a   *)
(* TTL; Postgres holds the owner's entries, images and audio; the file     *)
(* system holds the job's working directory and archive.                   *)
(***************************************************************************)
EXTENDS Integers, Sequences, FiniteSets, TLC

\* ------------------------------------------------------------------ bounds
MaxEntries == 1    \* entries of the owner
MaxMedia == 1      \* images, and audio files, per entry
MaxClients == 1    \* requests in flight at once (Spec)
MaxPollers == 2    \* requests in flight at once (SpecPolls)
MaxFaults == 1     \* failures of Redis, Postgres or the file system per run
MaxDbOps == 1      \* changes made to the owner's data per run (SpecData)
MaxJobs == 2       \* export jobs per run (SpecJobs)
MaxCount == 50     \* largest counter value (SpecProgress)

\* exportJobTTL = 24 * time.Hour, in ticks of 12 hours
exportJobTTL == 2

EntryIds == 1..MaxEntries
Users == {"alice", "bob"}
\* the user whose entries the relational store holds; the other user has none
DataOwner == "alice"

VARIABLES
    store,      \* Redis: jobId -> [present, data (JSON document), ttl]
    nextJob,    \* number of jobIds handed out so far (uuid.New never repeats)
    task,       \* per job: the goroutine runExportJob (pc, st, cursors)
    db,         \* Postgres: entry id -> [state, imgs, aud] of DataOwner
    files,      \* file system: per job working directory, CSV and archive
    clients,    \* per client connection: the request in flight
    response,   \* the HTTP response sent by the step just taken, if any
    faults,     \* number of environment failures injected so far
    dbOps,      \* number of changes made to the owner's data so far
    lastWritten,\* history: the document the job's creator/task stored last
    everTerminal,\* history: a terminal record was stored for the job
    retProg,    \* history: highest progress an owner Poll returned while pending/running
    retRank,    \* history: highest status rank an owner Poll returned
    faultLog    \* history: per job, the kinds of failure its task met

vars == <<store, nextJob, task, db, files, clients, response, faults, dbOps,
          lastWritten, everTerminal, retProg, retRank, faultLog>>

\* ------------------------------------------------------- ExportJobStatus
NoPath == <<>>
\* the zero value of the Go struct ExportJobStatus
ZeroStatus ==
    [jobId |-> 0, uid |-> "", status |-> "", progress |-> 0,
     startedAt |-> 0, completedAt |-> 0,
     totalEntries |-> 0, totalImages |-> 0, totalAudio |-> 0,
     processedEntries |-> 0, processedImages |-> 0, processedAudio |-> 0,
     zipPath |-> NoPath, error |-> ""]

StatusFields == DOMAIN ZeroStatus

\* filepath.Join("internal","exports",uid, jobID + ".zip")
ZipPathOf(uid, jobID) == <<"internal", "exports", uid, jobID>>

IsTerminal(s) == s \in {"completed", "failed"}

\* json.Marshal(status): completedAt and error carry omitempty
Marshal(status) ==
    [keys |-> StatusFields
                \ ((IF status.completedAt = 0 THEN {"completedAt"} ELSE {})
                   \cup (IF status.error = "" THEN {"error"} ELSE {})),
     val  |-> status]

\* json.Unmarshal(data, &st) into a zero-valued struct
Unmarshal(data) ==
    [jobId |-> IF "jobId" \in data.keys THEN data.val.jobId ELSE ZeroStatus.jobId,
     uid |-> IF "uid" \in data.keys THEN data.val.uid ELSE ZeroStatus.uid,
     status |-> IF "status" \in data.keys THEN data.val.status ELSE ZeroStatus.status,
     progress |-> IF "progress" \in data.keys THEN data.val.progress ELSE ZeroStatus.progress,
     startedAt |-> IF "startedAt" \in data.keys THEN data.val.startedAt ELSE ZeroStatus.startedAt,
     completedAt |-> IF "completedAt" \in data.keys THEN data.val.completedAt ELSE ZeroStatus.completedAt,
     totalEntries |-> IF "totalEntries" \in data.keys THEN data.val.totalEntries ELSE ZeroStatus.totalEntries,
     totalImages |-> IF "totalImages" \in data.keys THEN data.val.totalImages ELSE ZeroStatus.totalImages,
     totalAudio |-> IF "totalAudio" \in data.keys THEN data.val.totalAudio ELSE ZeroStatus.totalAudio,
     processedEntries |-> IF "processedEntries" \in data.keys THEN data.val.processedEntries ELSE ZeroStatus.processedEntries,
     processedImages |-> IF "processedImages" \in data.keys THEN data.val.processedImages ELSE ZeroStatus.processedImages,
     processedAudio |-> IF "processedAudio" \in data.keys THEN data.val.processedAudio ELSE ZeroStatus.processedAudio,
     zipPath |-> IF "zipPath" \in data.keys THEN data.val.zipPath ELSE ZeroStatus.zipPath,
     error |-> IF "error" \in data.keys THEN data.val.error ELSE ZeroStatus.error]

\* ------------------------------------------------------------ Redis store
NoKey == [present |-> FALSE, data |-> Marshal(ZeroStatus), ttl |-> 0]

\* a plausible variant: the key is derived from the owner, not from the job
saveExportStatusKeyedByUser(s, status, ok) ==
    IF ok
    THEN [s EXCEPT ![1] =
             [present |-> TRUE, data |-> Marshal(status), ttl |-> exportJobTTL]]
    ELSE s

\* a plausible variant: an overwrite keeps the expiry the key already has
saveExportStatusKeepTTL(s, status, ok) ==
    IF ok
    THEN [s EXCEPT ![status.jobId] =
             [present |-> TRUE, data |-> Marshal(status),
              ttl |-> IF s[status.jobId].present THEN s[status.jobId].ttl
                      ELSE exportJobTTL]]
    ELSE s

\* saveExportStatus: redis.Set(key, data, exportJobTTL); ok = FALSE is a Redis error
saveExportStatus(s, status, ok) ==
    IF ok
    THEN [s EXCEPT ![status.jobId] =
             [present |-> TRUE, data |-> Marshal(status), ttl |-> exportJobTTL]]
    ELSE s

\* a plausible variant: a missing key (redis.Nil) is read as an empty record
loadExportStatusNilAsEmpty(s, jobID, ok) ==
    IF ok /\ jobID \in DOMAIN s
    THEN [err |-> FALSE, st |-> Unmarshal(s[jobID].data)]
    ELSE [err |-> TRUE, st |-> ZeroStatus]

\* loadExportStatus: redis.Get + json.Unmarshal; err when the key is missing
\* or Redis fails (ok = FALSE)
loadExportStatus(s, jobID, ok) ==
    IF ok /\ jobID \in DOMAIN s /\ s[jobID].present
    THEN [err |-> FALSE, st |-> Unmarshal(s[jobID].data)]
    ELSE [err |-> TRUE, st |-> ZeroStatus]

\* the record a reader of the store finds under jobId
StoredRecord(j) == Unmarshal(store[j].data)

\* ---------------------------------------------------- progress accounting
\* pairs <<processed, total>> (total <= 120, processed <= 2*total) for which
\* the IEEE-754 double product float64(processed)/float64(total)*100.0 falls
\* just below the exact integer quotient, so that int(...) is one less
Float64Short ==
    {<<23, 20>>, <<29, 25>>, <<46, 40>>, <<29, 50>>, <<57, 50>>, <<58, 50>>,
     <<69, 60>>, <<87, 75>>, <<92, 80>>, <<29, 100>>, <<57, 100>>,
     <<58, 100>>, <<113, 100>>, <<114, 100>>, <<115, 100>>, <<116, 100>>,
     <<138, 120>>}

\* int(float64(processed) / float64(total) * 100.0), total > 0
Float64Pct(processed, total) ==
    IF <<processed, total>> \in Float64Short
    THEN (100 * processed) \div total - 1
    ELSE (100 * processed) \div total

\* a plausible variant: round to nearest instead of truncating
recalculateRounded(st) ==
    LET total == st.totalEntries + st.totalImages + st.totalAudio
        processed == st.processedEntries + st.processedImages + st.processedAudio
        pct == (200 * processed + total) \div (2 * (IF total > 0 THEN total ELSE 1))
    IN  [st EXCEPT !.progress =
            IF total <= 0 THEN 100 ELSE IF pct > 100 THEN 100 ELSE pct]

\* a plausible variant: the counters are persisted without recomputing progress
recalculateSkipped(st) == st

\* recalculateAndPersistProgress, the part before updateProgress
recalculate(st) ==
    LET total == st.totalEntries + st.totalImages + st.totalAudio
        processed == st.processedEntries + st.processedImages + st.processedAudio
        pct == Float64Pct(processed, total)
    IN  [st EXCEPT !.progress =
            IF total <= 0 THEN 100 ELSE IF pct > 100 THEN 100 ELSE pct]

\* ------------------------------------------------------ relational store
NoEntry == [state |-> "free", imgs |-> 0, aud |-> 0]

Live(d, uid) == IF uid = DataOwner THEN {e \in EntryIds : d[e].state = "live"} ELSE {}

RECURSIVE SumImgs(_, _)
SumImgs(d, S) ==
    IF S = {} THEN 0
    ELSE LET e == CHOOSE x \in S : TRUE IN d[e].imgs + SumImgs(d, S \ {e})

RECURSIVE SumAud(_, _)
SumAud(d, S) ==
    IF S = {} THEN 0
    ELSE LET e == CHOOSE x \in S : TRUE IN d[e].aud + SumAud(d, S \ {e})

\* SELECT COUNT(*) FROM entries WHERE user_uid = $1
CountEntries(d, uid) == Cardinality(Live(d, uid))
\* SELECT COUNT(*) FROM images i WHERE i.entry_id IN (owner's entries)
CountImages(d, uid) == SumImgs(d, Live(d, uid))
\* SELECT COUNT(*) FROM audio a WHERE a.entry_id IN (owner's entries)
CountAudio(d, uid) == SumAud(d, Live(d, uid))

RECURSIVE Ascending(_)
Ascending(S) ==
    IF S = {} THEN <<>>
    ELSE LET m == CHOOSE x \in S : \A y \in S : x <= y
         IN  <<m>> \o Ascending(S \ {m})

\* SELECT ... FROM entries WHERE user_uid = $1 ORDER BY created_at
\* (entry ids are handed out in creation order)
QueryEntries(d, uid) == Ascending(Live(d, uid))
\* SELECT url FROM images WHERE entry_id = $1: the number of rows
QueryImages(d, e) == IF d[e].state = "live" THEN d[e].imgs ELSE 0
\* SELECT url FROM audio WHERE entry_id = $1: the number of rows
QueryAudio(d, e) == IF d[e].state = "live" THEN d[e].aud ELSE 0

\* the contents the relational store may have when the server starts
InitialDbs ==
    {d \in [EntryIds -> [state : {"free", "live"}, imgs : 0..MaxMedia, aud : 0..MaxMedia]] :
        /\ \A e \in EntryIds : d[e].state = "free" => d[e] = NoEntry
        /\ \A e \in EntryIds : d[e].state = "live" =>
               \A f \in EntryIds : f < e => d[f].state = "live"}

\* ------------------------------------------------------------ file system
\* csvBlank: data rows of the CSV written with "[]" in place of tags or
\* locations that could not be read
NoFiles == [dir |-> FALSE, csv |-> FALSE, csvLines |-> 0, csvBlank |-> 0, media |-> 0,
            zip |-> FALSE, zipCsvLines |-> 0, zipMedia |-> 0, zipFiles |-> 0]

\* --------------------------------------------------------------- requests
\* a response: the request (op, caller uid, job asked for, owner found in the
\* loaded record) and what c.JSON / c.File sent
NoResp == [op |-> "", uid |-> "", job |-> 0, owner |-> "",
           code |-> 0, jobId |-> 0, status |-> "", progress |-> 0,
           totalEntries |-> 0, totalImages |-> 0, totalAudio |-> 0,
           completedAt |-> 0, error |-> "", file |-> NoPath]

\* c.JSON(code, gin.H{"error": ...})
ErrResp(op, uid, job, owner, code) ==
    [NoResp EXCEPT !.op = op, !.uid = uid, !.job = job, !.owner = owner, !.code = code]

IdleClient == [phase |-> "idle", op |-> "", uid |-> "", job |-> 0,
               snap |-> ZeroStatus]

\* the goroutine's locals: st, the three counts, the open result sets
\* (rows: entry ids still to come, left: media rows still to come), the
\* entry being processed and the lines buffered in csvWriter
IdleTask == [pc |-> "idle", uid |-> "", st |-> ZeroStatus,
             totalEntries |-> 0, totalImages |-> 0, totalAudio |-> 0,
             rows |-> <<>>, cur |-> 0, left |-> 0, csvBuf |-> 0]

StatusRank(s) == IF s = "pending" THEN 1 ELSE IF s = "running" THEN 2
                 ELSE IF IsTerminal(s) THEN 3 ELSE 0

\* ------------------------------------------------------------------- Init
JobIds == DOMAIN task
Clients == DOMAIN clients

\* the server has just started: no job, no request.  J: the job ids uuid.New
\* will hand out, C: the connections, D: the possible contents of Postgres,
\* T: the possible states of a job's goroutine
InitWith(J, C, D, T) ==
    /\ store = [j \in J |-> NoKey]
    /\ nextJob = 0
    /\ task \in [J -> T]
    /\ db \in D
    /\ files = [j \in J |-> NoFiles]
    /\ clients = [c \in C |-> IdleClient]
    /\ response = NoResp
    /\ faults = 0
    /\ dbOps = 0
    /\ lastWritten = [j \in J |-> Marshal(ZeroStatus)]
    /\ everTerminal = [j \in J |-> FALSE]
    /\ retProg = [j \in J |-> 0]
    /\ retRank = [j \in J |-> 0]
    /\ faultLog = [j \in J |-> {}]

Init == InitWith({1}, 1..MaxClients, InitialDbs, {IdleTask})

\* ---------------------------------------------------------------- helpers
\* an environment failure (ok = FALSE) is drawn from a bounded budget
Cost(ok) == IF ok THEN 0 ELSE 1

BudgetN(n) ==
    /\ faults' = faults + n
    /\ faults' <= MaxFaults

Budget(ok) == BudgetN(Cost(ok))

\* a write of the job's creator or of its background task reaches Redis
Persist(status, ok) ==
    /\ store' = saveExportStatus(store, status, ok)
    /\ lastWritten' = IF ok THEN [lastWritten EXCEPT ![status.jobId] = Marshal(status)]
                      ELSE lastWritten
    /\ everTerminal' = IF ok /\ IsTerminal(status.status)
                       THEN [everTerminal EXCEPT ![status.jobId] = TRUE]
                       ELSE everTerminal

Log(j, ok, kind) ==
    faultLog' = IF ok THEN faultLog ELSE [faultLog EXCEPT ![j] = @ \cup {kind}]

\* a plausible variant: a failure also resets the progress
failJobResettingProgress(st, msg) ==
    [st EXCEPT !.status = "failed", !.error = msg, !.progress = 0]

\* a plausible variant: the message is recorded but the status left as it was
failJobKeepingStatus(st, msg) == [st EXCEPT !.error = msg]

\* a plausible variant: the failure is recorded without its message
failJobNoMessage(st, msg) == [st EXCEPT !.status = "failed"]

\* st.Status = "failed"; st.Error = fmt.Sprintf("failed to ...: %v", err)
failJob(st, msg) == [st EXCEPT !.status = "failed", !.error = msg]

\* a plausible variant: the foreign caller is let through
ownerMismatchIgnored(st, authUID) == FALSE

\* if st.UID != authUID { 403 }
ownerMismatch(st, authUID) == st.uid # authUID

\* ------------------------------------------------------------- ExportData
\* a new request is taken by the lowest idle connection
Accepts(c) ==
    /\ clients[c].phase = "idle"
    /\ \A d \in Clients : d < c => clients[d].phase # "idle"

\* a plausible variant: the uid of the request body is not compared
foreignRequestAccepted(reqUID, authUID) == FALSE

\* if req.UID != authenticatedUID { 403 }
foreignRequest(reqUID, authUID) == reqUID # authUID

\* a plausible variant: the goroutine is started before the save is checked
ExportDataLaunchingFirst(c, authUID, reqUID, ok) ==
    /\ Accepts(c)
    /\ Budget(ok)
    /\ LET jobID == nextJob + 1
           status == [ZeroStatus EXCEPT !.jobId = jobID, !.uid = authUID,
                         !.status = "pending", !.progress = 0,
                         !.startedAt = 1, !.zipPath = NoPath]
       IN  IF reqUID = ""
           THEN /\ response' = ErrResp("submit", authUID, 0, "", 400)
                /\ ok
                /\ UNCHANGED <<store, nextJob, task, lastWritten, everTerminal>>
           ELSE IF foreignRequest(reqUID, authUID)
           THEN /\ response' = ErrResp("submit", authUID, 0, reqUID, 403)
                /\ ok
                /\ UNCHANGED <<store, nextJob, task, lastWritten, everTerminal>>
           ELSE /\ jobID \in JobIds
                /\ nextJob' = jobID
                /\ Persist(status, ok)
                /\ task' = [task EXCEPT ![jobID] =
                               [IdleTask EXCEPT !.pc = "load", !.uid = authUID]]
                /\ response' = IF ok
                                THEN [ErrResp("submit", authUID, jobID, reqUID, 202)
                                         EXCEPT !.jobId = jobID]
                                ELSE ErrResp("submit", authUID, jobID, reqUID, 500)
    /\ UNCHANGED <<db, files, clients, dbOps, retProg, retRank, faultLog>>

\* POST /export-data with body {uid: reqUID} by the authenticated authUID; the
\* response notes the uid the request named in its owner field
\* (AuthMiddleware aborts unless it has set a non-empty uid, so the 401 and
\* 500 branches on the request context cannot be taken through the routes)
ExportData(c, authUID, reqUID, ok) ==
    /\ Accepts(c)
    /\ Budget(ok)
    /\ LET jobID == nextJob + 1
           status == [ZeroStatus EXCEPT !.jobId = jobID, !.uid = authUID,
                         !.status = "pending", !.progress = 0,
                         !.startedAt = 1, !.zipPath = NoPath]
       IN  IF reqUID = ""
           THEN /\ response' = ErrResp("submit", authUID, 0, "", 400)
                /\ ok
                /\ UNCHANGED <<store, nextJob, task, lastWritten, everTerminal>>
           ELSE IF foreignRequest(reqUID, authUID)
           THEN /\ response' = ErrResp("submit", authUID, 0, reqUID, 403)
                /\ ok
                /\ UNCHANGED <<store, nextJob, task, lastWritten, everTerminal>>
           ELSE /\ jobID \in JobIds
                /\ nextJob' = jobID
                /\ Persist(status, ok)
                /\ IF ok
                   THEN \* go h.runExportJob(jobID, authenticatedUID); 202
                        /\ task' = [task EXCEPT ![jobID] =
                                       [IdleTask EXCEPT !.pc = "load", !.uid = authUID]]
                        /\ response' = [ErrResp("submit", authUID, jobID, reqUID, 202)
                                           EXCEPT !.jobId = jobID]
                   ELSE /\ task' = task
                        /\ response' = ErrResp("submit", authUID, jobID, reqUID, 500)
    /\ UNCHANGED <<db, files, clients, dbOps, retProg, retRank, faultLog>>

\* ----------------------------------------------------------- runExportJob
\* st, err := h.loadExportStatus(ctx, jobID); if err != nil { return }
TaskLoad(j, ok) ==
    /\ task[j].pc = "load"
    /\ Budget(ok)
    /\ LET r == loadExportStatus(store, j, ok)
       IN  task' = [task EXCEPT ![j] =
                IF r.err THEN [@ EXCEPT !.pc = "done"]
                ELSE [@ EXCEPT !.pc = "running", !.st = r.st]]
    /\ faultLog' = IF loadExportStatus(store, j, ok).err
                   THEN [faultLog EXCEPT ![j] = @ \cup {"load"}] ELSE faultLog
    /\ response' = NoResp
    /\ UNCHANGED <<store, nextJob, db, files, clients, dbOps,
                   lastWritten, everTerminal, retProg, retRank>>

\* st.Status = "running"; h.updateProgress(ctx, st)
TaskRunning(j, ok) ==
    /\ task[j].pc = "running"
    /\ Budget(ok)
    /\ LET st == [task[j].st EXCEPT !.status = "running"]
       IN  /\ Persist(st, ok)
           /\ task' = [task EXCEPT ![j] = [@ EXCEPT !.pc = "mkdir", !.st = st]]
    /\ Log(j, ok, "save")
    /\ response' = NoResp
    /\ UNCHANGED <<nextJob, db, files, clients, dbOps, retProg, retRank>>

\* os.MkdirAll(entriesDir, 0755)
TaskMkdir(j, ok) ==
    /\ task[j].pc = "mkdir"
    /\ Budget(ok)
    /\ IF ok
       THEN /\ files' = [files EXCEPT ![j] = [@ EXCEPT !.dir = TRUE]]
            /\ task' = [task EXCEPT ![j] = [@ EXCEPT !.pc = "countEntries"]]
       ELSE /\ files' = files
            /\ task' = [task EXCEPT ![j] = [@ EXCEPT !.pc = "exit",
                          !.st = failJob(@, "failed to create export directories")]]
    /\ Log(j, ok, "mkdir")
    /\ response' = NoResp
    /\ UNCHANGED <<store, nextJob, db, clients, dbOps,
                   lastWritten, everTerminal, retProg, retRank>>

\* a plausible variant: the task returns on the error without marking the job
afterCountReturning(t, ok, n, field, msg, nextPc) ==
    IF ok
    THEN [t EXCEPT !.pc = nextPc, ![field] = n]
    ELSE [t EXCEPT !.pc = "exit"]

\* a plausible variant: a failed count query is ignored and the job goes on
afterCountIgnoringError(t, ok, n, field, msg, nextPc) ==
    [t EXCEPT !.pc = nextPc, ![field] = IF ok THEN n ELSE 0]

\* one of the three COUNT(*) queries: on error fail and return, else keep the
\* count in the local totalEntries/totalImages/totalAudio
afterCount(t, ok, n, field, msg, nextPc) ==
    IF ok
    THEN [t EXCEPT !.pc = nextPc, ![field] = n]
    ELSE [t EXCEPT !.pc = "exit", !.st = failJob(t.st, msg)]

TaskCountEntries(j, ok) ==
    /\ task[j].pc = "countEntries"
    /\ Budget(ok)
    /\ task' = [task EXCEPT ![j] =
          afterCount(@, ok, CountEntries(db, task[j].uid), "totalEntries",
                     "failed to count entries", "countImages")]
    /\ Log(j, ok, "count")
    /\ response' = NoResp
    /\ UNCHANGED <<store, nextJob, db, files, clients, dbOps,
                   lastWritten, everTerminal, retProg, retRank>>

TaskCountImages(j, ok) ==
    /\ task[j].pc = "countImages"
    /\ Budget(ok)
    /\ task' = [task EXCEPT ![j] =
          afterCount(@, ok, CountImages(db, task[j].uid), "totalImages",
                     "failed to count images", "countAudio")]
    /\ Log(j, ok, "count")
    /\ response' = NoResp
    /\ UNCHANGED <<store, nextJob, db, files, clients, dbOps,
                   lastWritten, everTerminal, retProg, retRank>>

TaskCountAudio(j, ok) ==
    /\ task[j].pc = "countAudio"
    /\ Budget(ok)
    /\ task' = [task EXCEPT ![j] =
          afterCount(@, ok, CountAudio(db, task[j].uid), "totalAudio",
                     "failed to count audio", "saveTotals")]
    /\ Log(j, ok, "count")
    /\ response' = NoResp
    /\ UNCHANGED <<store, nextJob, db, files, clients, dbOps,
                   lastWritten, everTerminal, retProg, retRank>>

\* a plausible variant: the totals are set but not persisted at once
TaskSaveTotalsUnsaved(j, ok) ==
    /\ task[j].pc = "saveTotals"
    /\ Budget(ok)
    /\ LET st == [task[j].st EXCEPT !.totalEntries = task[j].totalEntries,
                                    !.totalImages = task[j].totalImages,
                                    !.totalAudio = task[j].totalAudio]
       IN  task' = [task EXCEPT ![j] = [@ EXCEPT !.pc = "createCSV", !.st = st]]
    /\ Log(j, ok, "save")
    /\ response' = NoResp
    /\ UNCHANGED <<store, lastWritten, everTerminal,
                   nextJob, db, files, clients, dbOps, retProg, retRank>>

\* st.TotalEntries = ...; st.TotalImages = ...; st.TotalAudio = ...;
\* h.updateProgress(ctx, st)
TaskSaveTotals(j, ok) ==
    /\ task[j].pc = "saveTotals"
    /\ Budget(ok)
    /\ LET st == [task[j].st EXCEPT !.totalEntries = task[j].totalEntries,
                                    !.totalImages = task[j].totalImages,
                                    !.totalAudio = task[j].totalAudio]
       IN  /\ Persist(st, ok)
           /\ task' = [task EXCEPT ![j] = [@ EXCEPT !.pc = "createCSV", !.st = st]]
    /\ Log(j, ok, "save")
    /\ response' = NoResp
    /\ UNCHANGED <<nextJob, db, files, clients, dbOps, retProg, retRank>>

\* os.Create(csvPath); csv.NewWriter; the header goes into the writer's buffer
TaskCreateCSV(j, ok) ==
    /\ task[j].pc = "createCSV"
    /\ Budget(ok)
    /\ IF ok
       THEN /\ files' = [files EXCEPT ![j] = [@ EXCEPT !.csv = TRUE, !.csvLines = 0]]
            /\ task' = [task EXCEPT ![j] = [@ EXCEPT !.pc = "queryEntries", !.csvBuf = 1]]
       ELSE /\ files' = files
            /\ task' = [task EXCEPT ![j] = [@ EXCEPT !.pc = "exit",
                          !.st = failJob(@, "failed to create CSV file")]]
    /\ Log(j, ok, "createCSV")
    /\ response' = NoResp
    /\ UNCHANGED <<store, nextJob, db, clients, dbOps,
                   lastWritten, everTerminal, retProg, retRank>>

\* rows, err := h.postgres.Query(SELECT ... FROM entries ... ORDER BY created_at)
TaskQueryEntries(j, ok) ==
    /\ task[j].pc = "queryEntries"
    /\ Budget(ok)
    /\ task' = [task EXCEPT ![j] =
          IF ok THEN [@ EXCEPT !.pc = "entry", !.rows = QueryEntries(db, task[j].uid)]
          ELSE [@ EXCEPT !.pc = "exit", !.st = failJob(@, "failed to fetch entries")]]
    /\ Log(j, ok, "queryEntries")
    /\ response' = NoResp
    /\ UNCHANGED <<store, nextJob, db, files, clients, dbOps,
                   lastWritten, everTerminal, retProg, retRank>>

\* for rows.Next() { Scan; fetchTagsJSON; fetchLocationsJSON; csvWriter.Write;
\* csvWriter.Flush; st.ProcessedEntries++; recalculateAndPersistProgress }
\* streamOk = FALSE: rows.Next() returns false because the stream broke
\* (rows.Err() is not looked at); scanOk = FALSE: rows.Scan fails;
\* fetchOk = FALSE: the tags or locations query fails (fetchTagsJSON and
\* fetchLocationsJSON then return "[]" and a nil error);
\* saveOk = FALSE: the Redis write fails
TaskEntry(j, streamOk, scanOk, fetchOk, saveOk) ==
    /\ task[j].pc = "entry"
    /\ BudgetN(Cost(streamOk) + Cost(scanOk) + Cost(fetchOk) + Cost(saveOk))
    /\ ~streamOk => scanOk /\ fetchOk /\ saveOk
    /\ ~scanOk => fetchOk /\ saveOk
    /\ IF task[j].rows = <<>>
       THEN \* rows.Next() is false: leave the loop
            /\ streamOk /\ scanOk /\ fetchOk /\ saveOk
            /\ task' = [task EXCEPT ![j] = [@ EXCEPT !.pc = "zip"]]
            /\ UNCHANGED <<store, files, lastWritten, everTerminal, faultLog>>
       ELSE IF ~streamOk
       THEN /\ task' = [task EXCEPT ![j] = [@ EXCEPT !.pc = "zip", !.rows = <<>>]]
            /\ Log(j, FALSE, "stream")
            /\ UNCHANGED <<store, files, lastWritten, everTerminal>>
       ELSE IF ~scanOk
       THEN /\ task' = [task EXCEPT ![j] = [@ EXCEPT !.pc = "exit",
                          !.st = failJob(@, "failed to scan entry")]]
            /\ Log(j, FALSE, "scanEntry")
            /\ UNCHANGED <<store, files, lastWritten, everTerminal>>
       ELSE LET st == recalculate([task[j].st EXCEPT !.processedEntries = @ + 1])
            IN  /\ files' = [files EXCEPT ![j] =
                       [@ EXCEPT !.csvLines = @ + task[j].csvBuf + 1,
                                 !.csvBlank = @ + (IF fetchOk THEN 0 ELSE 1)]]
                /\ Persist(st, saveOk)
                /\ task' = [task EXCEPT ![j] =
                       [@ EXCEPT !.pc = "queryImages", !.st = st, !.csvBuf = 0,
                                 !.cur = Head(task[j].rows), !.rows = Tail(task[j].rows)]]
                /\ faultLog' = [faultLog EXCEPT ![j] =
                       @ \cup (IF fetchOk THEN {} ELSE {"fetch"})
                         \cup (IF saveOk THEN {} ELSE {"save"})]
    /\ response' = NoResp
    /\ UNCHANGED <<nextJob, db, clients, dbOps, retProg, retRank>>

\* os.MkdirAll(imagesDir), os.MkdirAll(audioDir) (errors ignored);
\* imgRows, err := h.postgres.Query(SELECT url FROM images WHERE entry_id = $1)
TaskQueryImages(j, ok) ==
    /\ task[j].pc = "queryImages"
    /\ Budget(ok)
    /\ task' = [task EXCEPT ![j] =
          IF ok THEN [@ EXCEPT !.pc = "image", !.left = QueryImages(db, task[j].cur)]
          ELSE [@ EXCEPT !.pc = "exit", !.st = failJob(@, "failed to fetch images")]]
    /\ Log(j, ok, "queryImages")
    /\ response' = NoResp
    /\ UNCHANGED <<store, nextJob, db, files, clients, dbOps,
                   lastWritten, everTerminal, retProg, retRank>>

\* a plausible variant: an asset that cannot be copied fails the job
afterCopyFailing(t, copyOk, field, loopPc) ==
    IF copyOk
    THEN [t EXCEPT !.st = recalculate([t.st EXCEPT ![field] = @ + 1]),
                   !.left = @ - 1, !.pc = loopPc]
    ELSE [t EXCEPT !.st = failJob(t.st, "failed to copy media"), !.pc = "exit"]

\* the loop body after Scan: copyMediaFromURL(...) (an error is only logged);
\* st.Processed<X>++; recalculateAndPersistProgress up to its updateProgress
afterCopy(t, copyOk, field, loopPc) ==
    [t EXCEPT !.st = recalculate([t.st EXCEPT ![field] = @ + 1]),
              !.left = @ - 1, !.pc = loopPc]

\* one turn of for imgRows.Next() {...}, or imgRows.Close() after the last row
TaskImage(j, streamOk, scanOk, copyOk, saveOk) ==
    /\ task[j].pc = "image"
    /\ BudgetN(Cost(streamOk) + Cost(scanOk) + Cost(copyOk) + Cost(saveOk))
    /\ ~streamOk => scanOk /\ copyOk /\ saveOk
    /\ ~scanOk => copyOk /\ saveOk
    /\ IF task[j].left = 0
       THEN /\ streamOk /\ scanOk /\ copyOk /\ saveOk
            /\ task' = [task EXCEPT ![j] = [@ EXCEPT !.pc = "queryAudio"]]
            /\ UNCHANGED <<store, files, lastWritten, everTerminal, faultLog>>
       ELSE IF ~streamOk
       THEN \* Next() returns false on the broken stream; Close()
            /\ task' = [task EXCEPT ![j] = [@ EXCEPT !.pc = "queryAudio", !.left = 0]]
            /\ Log(j, FALSE, "stream")
            /\ UNCHANGED <<store, files, lastWritten, everTerminal>>
       ELSE IF ~scanOk
       THEN /\ task' = [task EXCEPT ![j] = [@ EXCEPT !.pc = "exit",
                          !.st = failJob(@, "failed to scan image")]]
            /\ Log(j, FALSE, "scanImage")
            /\ UNCHANGED <<store, files, lastWritten, everTerminal>>
       ELSE LET t == afterCopy(task[j], copyOk, "processedImages", "image")
            IN  /\ files' = [files EXCEPT ![j] =
                       [@ EXCEPT !.media = @ + (IF copyOk THEN 1 ELSE 0)]]
                /\ Persist(t.st, saveOk)
                /\ task' = [task EXCEPT ![j] = t]
                /\ faultLog' = [faultLog EXCEPT ![j] =
                       @ \cup (IF copyOk THEN {} ELSE {"copy"})
                         \cup (IF saveOk THEN {} ELSE {"save"})]
    /\ response' = NoResp
    /\ UNCHANGED <<nextJob, db, clients, dbOps, retProg, retRank>>

\* a plausible variant: a failed audio query is treated as an empty list
TaskQueryAudioIgnoringError(j, ok) ==
    /\ task[j].pc = "queryAudio"
    /\ Budget(ok)
    /\ task' = [task EXCEPT ![j] =
          [@ EXCEPT !.pc = "audio",
                    !.left = IF ok THEN QueryAudio(db, task[j].cur) ELSE 0]]
    /\ Log(j, ok, "queryAudio")
    /\ response' = NoResp
    /\ UNCHANGED <<store, nextJob, db, files, clients, dbOps,
                   lastWritten, everTerminal, retProg, retRank>>

\* audRows, err := h.postgres.Query(SELECT url FROM audio WHERE entry_id = $1)
TaskQueryAudio(j, ok) ==
    /\ task[j].pc = "queryAudio"
    /\ Budget(ok)
    /\ task' = [task EXCEPT ![j] =
          IF ok THEN [@ EXCEPT !.pc = "audio", !.left = QueryAudio(db, task[j].cur)]
          ELSE [@ EXCEPT !.pc = "exit", !.st = failJob(@, "failed to fetch audio")]]
    /\ Log(j, ok, "queryAudio")
    /\ response' = NoResp
    /\ UNCHANGED <<store, nextJob, db, files, clients, dbOps,
                   lastWritten, everTerminal, retProg, retRank>>

\* one turn of for audRows.Next() {...}, or audRows.Close() after the last row
TaskAudio(j, streamOk, scanOk, copyOk, saveOk) ==
    /\ task[j].pc = "audio"
    /\ BudgetN(Cost(streamOk) + Cost(scanOk) + Cost(copyOk) + Cost(saveOk))
    /\ ~streamOk => scanOk /\ copyOk /\ saveOk
    /\ ~scanOk => copyOk /\ saveOk
    /\ IF task[j].left = 0
       THEN /\ streamOk /\ scanOk /\ copyOk /\ saveOk
            /\ task' = [task EXCEPT ![j] = [@ EXCEPT !.pc = "entry"]]
            /\ UNCHANGED <<store, files, lastWritten, everTerminal, faultLog>>
       ELSE IF ~streamOk
       THEN \* Next() returns false on the broken stream; Close()
            /\ task' = [task EXCEPT ![j] = [@ EXCEPT !.pc = "entry", !.left = 0]]
            /\ Log(j, FALSE, "stream")
            /\ UNCHANGED <<store, files, lastWritten, everTerminal>>
       ELSE IF ~scanOk
       THEN /\ task' = [task EXCEPT ![j] = [@ EXCEPT !.pc = "exit",
                          !.st = failJob(@, "failed to scan audio")]]
            /\ Log(j, FALSE, "scanAudio")
            /\ UNCHANGED <<store, files, lastWritten, everTerminal>>
       ELSE LET t == afterCopy(task[j], copyOk, "processedAudio", "audio")
            IN  /\ files' = [files EXCEPT ![j] =
                       [@ EXCEPT !.media = @ + (IF copyOk THEN 1 ELSE 0)]]
                /\ Persist(t.st, saveOk)
                /\ task' = [task EXCEPT ![j] = t]
                /\ faultLog' = [faultLog EXCEPT ![j] =
                       @ \cup (IF copyOk THEN {} ELSE {"copy"})
                         \cup (IF saveOk THEN {} ELSE {"save"})]
    /\ response' = NoResp
    /\ UNCHANGED <<nextJob, db, clients, dbOps, retProg, retRank>>

\* a plausible variant: the walk also adds an archive member per directory
zipDirectoryWithDirs(f, outcome) ==
    IF outcome = "createErr" THEN f
    ELSE IF outcome = "walkErr" THEN [f EXCEPT !.zip = TRUE]
    ELSE [f EXCEPT !.zip = TRUE,
                   !.zipFiles = (IF f.dir THEN 1 ELSE 0) + (IF f.csv THEN 1 ELSE 0) + f.media,
                   !.zipCsvLines = f.csvLines,
                   !.zipMedia = f.media]

\* zipDirectory(jobRoot, zipPath): os.Create(destZipPath), then filepath.Walk
\* adds every regular file.  outcome "createErr": os.Create fails;
\* "walkErr": the walk fails after the (partial) archive file was created
zipDirectory(f, outcome) ==
    IF outcome = "createErr" THEN f
    ELSE IF outcome = "walkErr" THEN [f EXCEPT !.zip = TRUE]
    ELSE [f EXCEPT !.zip = TRUE,
                   !.zipFiles = (IF f.csv THEN 1 ELSE 0) + f.media,
                   !.zipCsvLines = f.csvLines,
                   !.zipMedia = f.media]

TaskZip(j, outcome) ==
    /\ task[j].pc = "zip"
    /\ Budget(outcome = "ok")
    /\ files' = [files EXCEPT ![j] = zipDirectory(@, outcome)]
    /\ task' = [task EXCEPT ![j] =
          IF outcome = "ok" THEN [@ EXCEPT !.pc = "complete"]
          ELSE [@ EXCEPT !.pc = "exit", !.st = failJob(@, "failed to create zip")]]
    /\ Log(j, outcome = "ok", "zip")
    /\ response' = NoResp
    /\ UNCHANGED <<store, nextJob, db, clients, dbOps,
                   lastWritten, everTerminal, retProg, retRank>>

\* st.ZipPath = zipPath; st.CompletedAt = &completed; st.Status = "completed";
\* st.Progress = 100; h.updateProgress(ctx, st)
TaskComplete(j, ok) ==
    /\ task[j].pc = "complete"
    /\ Budget(ok)
    /\ LET st == [task[j].st EXCEPT !.zipPath = ZipPathOf(task[j].uid, j),
                                    !.completedAt = 1,
                                    !.status = "completed",
                                    !.progress = 100]
       IN  /\ Persist(st, ok)
           /\ task' = [task EXCEPT ![j] = [@ EXCEPT !.pc = "exit", !.st = st]]
    /\ Log(j, ok, "save")
    /\ response' = NoResp
    /\ UNCHANGED <<nextJob, db, files, clients, dbOps, retProg, retRank>>

\* the deferred calls, last registered first: rows.Close(), csvWriter.Flush(),
\* csvFile.Close(), then the final h.updateProgress(ctx, st)
TaskExit(j, ok) ==
    /\ task[j].pc = "exit"
    /\ Budget(ok)
    /\ files' = [files EXCEPT ![j] = [@ EXCEPT !.csvLines = @ + task[j].csvBuf]]
    /\ Persist(task[j].st, ok)
    /\ task' = [task EXCEPT ![j] = [@ EXCEPT !.pc = "done", !.csvBuf = 0, !.rows = <<>>]]
    /\ Log(j, ok, "save")
    /\ response' = NoResp
    /\ UNCHANGED <<nextJob, db, clients, dbOps, retProg, retRank>>

\* recalculateAndPersistProgress(ctx, st) called on its own
recalculateAndPersistProgress(j, ok) ==
    /\ task[j].pc = "recalculate"
    /\ Budget(ok)
    /\ LET st == recalculate(task[j].st)
       IN  /\ Persist(st, ok)
           /\ task' = [task EXCEPT ![j] = [@ EXCEPT !.pc = "recalculated", !.st = st]]
    /\ Log(j, ok, "save")
    /\ response' = NoResp
    /\ UNCHANGED <<nextJob, db, files, clients, dbOps, retProg, retRank>>

\* the steps of the goroutine; B = {TRUE}: nothing fails, B = BOOLEAN: any
\* step may fail; L = BOOLEAN: moreover a result stream may break part-way
\* and the tags or locations of an entry may be unreadable
runExportJob(j, B, L) ==
    \/ \E ok \in B :
          \/ TaskLoad(j, ok) \/ TaskRunning(j, ok) \/ TaskMkdir(j, ok)
          \/ TaskCountEntries(j, ok) \/ TaskCountImages(j, ok) \/ TaskCountAudio(j, ok)
          \/ TaskSaveTotals(j, ok) \/ TaskCreateCSV(j, ok) \/ TaskQueryEntries(j, ok)
          \/ TaskQueryImages(j, ok) \/ TaskQueryAudio(j, ok)
          \/ TaskComplete(j, ok) \/ TaskExit(j, ok)
    \/ \E streamOk, fetchOk \in L, scanOk, saveOk \in B :
          TaskEntry(j, streamOk, scanOk, fetchOk, saveOk)
    \/ \E streamOk \in L, scanOk, copyOk, saveOk \in B :
          \/ TaskImage(j, streamOk, scanOk, copyOk, saveOk)
          \/ TaskAudio(j, streamOk, scanOk, copyOk, saveOk)
    \/ \E outcome \in (IF FALSE \in B THEN {"ok", "createErr", "walkErr"} ELSE {"ok"}) :
          TaskZip(j, outcome)

\* --------------------------------------------------------- ExportProgress
Max(a, b) == IF a >= b THEN a ELSE b

\* a plausible variant: the record is written back before the owner check
ExportProgressLoadRefreshingFirst(c, authUID, jobID, ok) ==
    /\ Accepts(c)
    /\ Budget(ok)
    /\ LET r == loadExportStatus(store, jobID, ok)
       IN  IF jobID = 0
           THEN /\ ok
                /\ response' = ErrResp("poll", authUID, jobID, "", 400)
                /\ clients' = clients
                /\ store' = store
           ELSE IF r.err
           THEN /\ response' = ErrResp("poll", authUID, jobID, "", 404)
                /\ clients' = clients
                /\ store' = store
           ELSE IF ownerMismatch(r.st, authUID)
           THEN /\ response' = ErrResp("poll", authUID, jobID, r.st.uid, 403)
                /\ clients' = clients
                /\ store' = saveExportStatus(store, r.st, TRUE)
           ELSE /\ response' = NoResp
                /\ clients' = [clients EXCEPT ![c] =
                       [phase |-> "loaded", op |-> "poll", uid |-> authUID,
                        job |-> jobID, snap |-> r.st]]
                /\ store' = store
    /\ UNCHANGED <<nextJob, task, db, files, dbOps,
                   lastWritten, everTerminal, retProg, retRank, faultLog>>

\* GET /export-progress?exportJobId=jobID (0 stands for a missing parameter):
\* the part up to and including the owner check
ExportProgressLoad(c, authUID, jobID, ok) ==
    /\ Accepts(c)
    /\ Budget(ok)
    /\ LET r == loadExportStatus(store, jobID, ok)
       IN  IF jobID = 0
           THEN /\ ok
                /\ response' = ErrResp("poll", authUID, jobID, "", 400)
                /\ clients' = clients
           ELSE IF r.err
           THEN /\ response' = ErrResp("poll", authUID, jobID, "", 404)
                /\ clients' = clients
           ELSE IF ownerMismatch(r.st, authUID)
           THEN /\ response' = ErrResp("poll", authUID, jobID, r.st.uid, 403)
                /\ clients' = clients
           ELSE /\ response' = NoResp
                /\ clients' = [clients EXCEPT ![c] =
                       [phase |-> "loaded", op |-> "poll", uid |-> authUID,
                        job |-> jobID, snap |-> r.st]]
    /\ UNCHANGED <<store, nextJob, task, db, files, dbOps,
                   lastWritten, everTerminal, retProg, retRank, faultLog>>

\* history: what the owner's Polls have returned for a pending or running job
ObservePoll(c) ==
    LET st == clients[c].snap
    IN  IF st.status \in {"pending", "running"}
        THEN /\ retProg' = [retProg EXCEPT ![clients[c].job] = Max(@, st.progress)]
             /\ retRank' = [retRank EXCEPT ![clients[c].job] = Max(@, StatusRank(st.status))]
        ELSE UNCHANGED <<retProg, retRank>>

\* _ = h.saveExportStatus(ctx, *st); c.JSON(http.StatusOK, resp)
ExportProgressSave(c, ok) ==
    /\ clients[c].phase = "loaded" /\ clients[c].op = "poll"
    /\ Budget(ok)
    /\ LET st == clients[c].snap
       IN  /\ store' = saveExportStatus(store, st, ok)
           /\ everTerminal' = IF ok /\ IsTerminal(st.status)
                              THEN [everTerminal EXCEPT ![st.jobId] = TRUE]
                              ELSE everTerminal
           /\ response' = [NoResp EXCEPT
                  !.op = "poll", !.uid = clients[c].uid, !.job = clients[c].job,
                  !.owner = st.uid, !.code = 200,
                  !.jobId = st.jobId, !.status = st.status, !.progress = st.progress,
                  !.totalEntries = st.totalEntries, !.totalImages = st.totalImages,
                  !.totalAudio = st.totalAudio, !.completedAt = st.completedAt,
                  !.error = st.error]
    /\ clients' = [clients EXCEPT ![c] = IdleClient]
    /\ UNCHANGED <<nextJob, task, db, files, dbOps, lastWritten, faultLog>>

\* --------------------------------------------------- DownloadExportedData
\* os.Stat(path) finds the archive
FileExists(path) == path # NoPath /\ files[path[4]].zip

\* a plausible variant: only a job still in flight is refused
notReadyWhileInFlight(st) == st.status \in {"pending", "running"}

\* if st.Status != "completed" || st.ZipPath == "" { 400 }
notReady(st) == st.status # "completed" \/ st.zipPath = NoPath

\* a plausible variant: the status is checked before the owner
DownloadLoadStatusFirst(c, authUID, jobID, ok) ==
    /\ Accepts(c)
    /\ Budget(ok)
    /\ LET r == loadExportStatus(store, jobID, ok)
       IN  IF jobID = 0
           THEN /\ ok
                /\ response' = ErrResp("download", authUID, jobID, "", 400)
                /\ clients' = clients
           ELSE IF r.err
           THEN /\ response' = ErrResp("download", authUID, jobID, "", 404)
                /\ clients' = clients
           ELSE IF notReady(r.st)
           THEN /\ response' = ErrResp("download", authUID, jobID, r.st.uid, 400)
                /\ clients' = clients
           ELSE IF ownerMismatch(r.st, authUID)
           THEN /\ response' = ErrResp("download", authUID, jobID, r.st.uid, 403)
                /\ clients' = clients
           ELSE /\ response' = NoResp
                /\ clients' = [clients EXCEPT ![c] =
                       [phase |-> "loaded", op |-> "download", uid |-> authUID,
                        job |-> jobID, snap |-> r.st]]
    /\ UNCHANGED <<store, nextJob, task, db, files, dbOps,
                   lastWritten, everTerminal, retProg, retRank, faultLog>>

\* GET /download-exported-data?exportJobId=jobID: up to the status check
DownloadLoad(c, authUID, jobID, ok) ==
    /\ Accepts(c)
    /\ Budget(ok)
    /\ LET r == loadExportStatus(store, jobID, ok)
       IN  IF jobID = 0
           THEN /\ ok
                /\ response' = ErrResp("download", authUID, jobID, "", 400)
                /\ clients' = clients
           ELSE IF r.err
           THEN /\ response' = ErrResp("download", authUID, jobID, "", 404)
                /\ clients' = clients
           ELSE IF ownerMismatch(r.st, authUID)
           THEN /\ response' = ErrResp("download", authUID, jobID, r.st.uid, 403)
                /\ clients' = clients
           ELSE IF notReady(r.st)
           THEN /\ response' = ErrResp("download", authUID, jobID, r.st.uid, 400)
                /\ clients' = clients
           ELSE /\ response' = NoResp
                /\ clients' = [clients EXCEPT ![c] =
                       [phase |-> "loaded", op |-> "download", uid |-> authUID,
                        job |-> jobID, snap |-> r.st]]
    /\ UNCHANGED <<store, nextJob, task, db, files, dbOps,
                   lastWritten, everTerminal, retProg, retRank, faultLog>>

\* if _, err := os.Stat(st.ZipPath); os.IsNotExist(err) { 410 }
DownloadStat(c) ==
    /\ clients[c].phase = "loaded" /\ clients[c].op = "download"
    /\ IF FileExists(clients[c].snap.zipPath)
       THEN /\ clients' = [clients EXCEPT ![c] = [@ EXCEPT !.phase = "stated"]]
            /\ response' = NoResp
       ELSE /\ clients' = [clients EXCEPT ![c] = IdleClient]
            /\ response' = ErrResp("download", clients[c].uid, clients[c].job,
                                   clients[c].snap.uid, 410)
    /\ UNCHANGED <<store, nextJob, task, db, files, faults, dbOps,
                   lastWritten, everTerminal, retProg, retRank, faultLog>>

\* c.File(st.ZipPath): http.ServeFile sends the file, or 404 when it is gone
DownloadServe(c) ==
    /\ clients[c].phase = "stated"
    /\ response' =
          IF FileExists(clients[c].snap.zipPath)
          THEN [ErrResp("download", clients[c].uid, clients[c].job,
                        clients[c].snap.uid, 200)
                   EXCEPT !.file = clients[c].snap.zipPath]
          ELSE ErrResp("download", clients[c].uid, clients[c].job,
                       clients[c].snap.uid, 404)
    /\ clients' = [clients EXCEPT ![c] = IdleClient]
    /\ UNCHANGED <<store, nextJob, task, db, files, faults, dbOps,
                   lastWritten, everTerminal, retProg, retRank, faultLog>>

\* ------------------------------------------------------------ environment
\* 12 hours pass: Redis counts every key's TTL down and drops expired keys
Tick ==
    /\ \E j \in JobIds : store[j].present
    /\ store' = [j \in JobIds |->
          IF store[j].present /\ store[j].ttl > 1
          THEN [store[j] EXCEPT !.ttl = @ - 1]
          ELSE NoKey]
    /\ response' = NoResp
    /\ UNCHANGED <<nextJob, task, db, files, clients, faults, dbOps,
                   lastWritten, everTerminal, retProg, retRank, faultLog>>

\* the archive is removed from disk by something outside the server
RemoveArchive(j) ==
    /\ files[j].zip
    /\ files' = [files EXCEPT ![j] = [@ EXCEPT !.zip = FALSE, !.zipFiles = 0,
                                               !.zipCsvLines = 0, !.zipMedia = 0]]
    /\ response' = NoResp
    /\ UNCHANGED <<store, nextJob, task, db, clients, faults, dbOps,
                   lastWritten, everTerminal, retProg, retRank, faultLog>>

DbChange(d) ==
    /\ dbOps < MaxDbOps
    /\ dbOps' = dbOps + 1
    /\ db' = d
    /\ response' = NoResp
    /\ UNCHANGED <<store, nextJob, task, files, clients, faults,
                   lastWritten, everTerminal, retProg, retRank, faultLog>>

\* CreateEntry: INSERT INTO entries (and its images); ids follow creation order
CreateEntry(e, n) ==
    /\ db[e].state = "free"
    /\ \A f \in EntryIds : f < e => db[f].state # "free"
    /\ DbChange([db EXCEPT ![e] = [state |-> "live", imgs |-> n, aud |-> 0]])

\* DeleteEntry: DELETE FROM entries; images and audio go by ON DELETE CASCADE
DeleteEntry(e) ==
    /\ db[e].state = "live"
    /\ DbChange([db EXCEPT ![e] = [state |-> "deleted", imgs |-> 0, aud |-> 0]])

\* AddImage: INSERT INTO images
AddImage(e) ==
    /\ db[e].state = "live" /\ db[e].imgs < MaxMedia
    /\ DbChange([db EXCEPT ![e] = [@ EXCEPT !.imgs = @ + 1]])

\* RemoveImage: DELETE FROM images WHERE entry_id = $1 AND url = $2
RemoveImage(e) ==
    /\ db[e].state = "live" /\ db[e].imgs > 0
    /\ DbChange([db EXCEPT ![e] = [@ EXCEPT !.imgs = @ - 1]])

\* AddAudio: INSERT INTO audio
AddAudio(e) ==
    /\ db[e].state = "live" /\ db[e].aud < MaxMedia
    /\ DbChange([db EXCEPT ![e] = [@ EXCEPT !.aud = @ + 1]])

\* RemoveAudio: DELETE FROM audio WHERE entry_id = $1 AND url = $2
RemoveAudio(e) ==
    /\ db[e].state = "live" /\ db[e].aud > 0
    /\ DbChange([db EXCEPT ![e] = [@ EXCEPT !.aud = @ - 1]])

\* ------------------------------------------------------------------- Next
Requests(faulty) ==
    \/ \E c \in Clients, authUID \in Users, reqUID \in Users \cup {""}, ok \in faulty :
          ExportData(c, authUID, reqUID, ok)
    \/ \E c \in Clients, authUID \in Users, jobID \in JobIds \cup {0}, ok \in faulty :
          ExportProgressLoad(c, authUID, jobID, ok)
    \/ \E c \in Clients, authUID \in Users, jobID \in JobIds \cup {0}, ok \in faulty :
          DownloadLoad(c, authUID, jobID, ok)
    \/ \E c \in Clients : DownloadStat(c)
    \/ \E c \in Clients : DownloadServe(c)

DataChanges ==
    \/ \E e \in EntryIds, n \in 0..MaxMedia : CreateEntry(e, n)
    \/ \E e \in EntryIds :
          \/ DeleteEntry(e) \/ AddImage(e) \/ RemoveImage(e)
          \/ AddAudio(e) \/ RemoveAudio(e)

\* one export job, its owner's and a stranger's requests, failures, time
Next ==
    \/ Requests(BOOLEAN)
    \/ \E c \in Clients, ok \in BOOLEAN :
          ExportProgressSave(c, ok) /\ UNCHANGED <<retProg, retRank>>
    \/ \E j \in JobIds : runExportJob(j, BOOLEAN, {TRUE})
    \/ Tick
    \/ \E j \in JobIds : RemoveArchive(j)

Spec == Init /\ [][Next]_vars

\* one export job polled over MaxPollers connections at once, nothing fails
InitPolls == InitWith({1}, 1..MaxPollers, InitialDbs, {IdleTask})

NextPolls ==
    \/ \E c \in Clients, authUID \in Users : ExportData(c, authUID, authUID, TRUE)
    \/ \E c \in Clients, authUID \in Users, jobID \in JobIds :
          ExportProgressLoad(c, authUID, jobID, TRUE)
    \/ \E c \in Clients : ExportProgressSave(c, TRUE) /\ ObservePoll(c)
    \/ \E j \in JobIds : runExportJob(j, {TRUE}, {TRUE})

SpecPolls == InitPolls /\ [][NextPolls]_vars

\* one export job while the owner's entries, images and audio change
InitData == InitWith({1}, {1}, InitialDbs, {IdleTask})

NextData ==
    \/ \E c \in Clients : ExportData(c, DataOwner, DataOwner, TRUE)
    \/ \E j \in JobIds : runExportJob(j, {TRUE}, {TRUE})
    \/ DataChanges

SpecData == InitData /\ [][NextData]_vars

\* MaxJobs export jobs submitted by the same owner
InitJobs == InitWith(1..MaxJobs, {1}, InitialDbs, {IdleTask})

NextJobs ==
    \/ \E c \in Clients : ExportData(c, DataOwner, DataOwner, TRUE)
    \/ \E j \in JobIds : runExportJob(j, {TRUE}, {TRUE})

SpecJobs == InitJobs /\ [][NextJobs]_vars

\* the Go scheduler runs every goroutine that can take a step
SpecJobsFair ==
    SpecJobs /\ \A j \in 1..MaxJobs : WF_vars(runExportJob(j, {TRUE}, {TRUE}))

\* one export job in which any step may fail, a result stream may break
\* part-way and the tags or locations of an entry may be unreadable
InitExtract == InitWith({1}, {1}, InitialDbs, {IdleTask})

NextExtract ==
    \/ \E c \in Clients, ok \in BOOLEAN : ExportData(c, DataOwner, DataOwner, ok)
    \/ \E j \in JobIds : runExportJob(j, BOOLEAN, BOOLEAN)

SpecExtract == InitExtract /\ [][NextExtract]_vars

\* progress accounting on its own: any counters up to MaxCount
ProgressInputs ==
    {[ZeroStatus EXCEPT !.jobId = 1, !.uid = DataOwner, !.status = "running",
          !.startedAt = 1,
          !.totalEntries = te, !.totalImages = ti,
          !.processedEntries = pe, !.processedImages = pi, !.processedAudio = pa] :
        te \in 0..MaxCount, pe \in 0..MaxCount, ti \in 0..1, pi \in 0..1, pa \in 0..1}

InitProgress ==
    InitWith({1}, {1}, {[e \in EntryIds |-> NoEntry]},
             {[IdleTask EXCEPT !.pc = "recalculate", !.uid = DataOwner, !.st = st] :
                 st \in ProgressInputs})

NextProgress == \E j \in JobIds : recalculateAndPersistProgress(j, TRUE)

SpecProgress == InitProgress /\ [][NextProgress]_vars

\* ----------------------------------------------------------------- claims
ProcessedSum(r) == r.processedEntries + r.processedImages + r.processedAudio
TotalSum(r) == r.totalEntries + r.totalImages + r.totalAudio

\* C1: a Poll or Download never makes the record stored under a jobId differ,
\* in any field, from the record the job's background task (or, before it
\* started, Submit) stored last.
C1_OnlyTheTaskChangesTheRecord ==
    \A j \in JobIds : store[j].present => store[j].data = lastWritten[j]

\* C2: once the stored record of a job is completed or failed, every record
\* stored for it afterwards (while the key lives) has the same status, the
\* same zipPath and the same error.
C2_TerminalIsFinal ==
    [][\A j \in JobIds :
          (/\ store[j].present
           /\ IsTerminal(Unmarshal(store[j].data).status)
           /\ store'[j].present)
          => /\ Unmarshal(store'[j].data).status = Unmarshal(store[j].data).status
             /\ Unmarshal(store'[j].data).zipPath = Unmarshal(store[j].data).zipPath
             /\ Unmarshal(store'[j].data).error = Unmarshal(store[j].data).error]_vars

\* C3: an owner's Poll that starts after another Poll of the job has returned,
\* both while the job is pending or running, returns a progress that is not
\* lower and a status that is not earlier than what that Poll returned.
C3_PollsAreMonotonic ==
    [][\A c \in Clients :
          (/\ clients[c].phase = "idle"
           /\ clients'[c].phase = "loaded"
           /\ clients'[c].op = "poll"
           /\ clients'[c].snap.status \in {"pending", "running"})
          => /\ clients'[c].snap.progress >= retProg[clients'[c].job]
             /\ StatusRank(clients'[c].snap.status) >= retRank[clients'[c].job]]_vars

\* the response carries nothing of the job
NoJobData(r) ==
    /\ r.jobId = 0 /\ r.status = "" /\ r.progress = 0
    /\ r.totalEntries = 0 /\ r.totalImages = 0 /\ r.totalAudio = 0
    /\ r.completedAt = 0 /\ r.error = "" /\ r.file = NoPath

\* C4: a Poll or Download of a stored job by a caller who is not its owner is
\* answered 403 whatever the job's status, and the answer carries none of the
\* job's status, progress, totals or archive.
C4_ForeignCallerForbidden ==
    /\ (response.op \in {"poll", "download"} /\ response.owner # ""
        /\ response.owner # response.uid)
       => response.code = 403 /\ NoJobData(response)
    /\ (response.op \in {"poll", "download"} /\ response.job \in JobIds
        /\ store[response.job].present
        /\ Unmarshal(store[response.job].data).uid # response.uid)
       => /\ NoJobData(response)
          /\ response.code = 403 \/ (response.code = 404 /\ faults > 0)

C4_Witness ==
    /\ response.op = "download" /\ response.code = 403
    /\ store[1].present /\ Unmarshal(store[1].data).status = "completed"
    /\ response.uid # Unmarshal(store[1].data).uid

\* C5: a stored completed record has a zipPath and no error; a stored failed
\* record has an error and no zipPath.
C5_TerminalRecordShape ==
    \A j \in JobIds : store[j].present =>
        LET r == Unmarshal(store[j].data)
        IN  /\ r.status = "completed" => r.zipPath # NoPath /\ r.error = ""
            /\ r.status = "failed" => r.error # "" /\ r.zipPath = NoPath

C5_Witness ==
    /\ store[1].present
    /\ Unmarshal(store[1].data).status = "failed"
    /\ task[1].pc = "done"

\* C6: every job whose Submit returned a jobId gets a stored record with
\* status completed or failed, also when the task's initial load or a save
\* fails: once the task has returned, such a record has been stored.
C6_EveryJobEndsTerminal ==
    \A j \in JobIds : task[j].pc = "done" => everTerminal[j]

\* the accounting function of section 4.2 as the code computes it
Accounting(r) ==
    IF TotalSum(r) <= 0 THEN 100
    ELSE IF Float64Pct(ProcessedSum(r), TotalSum(r)) > 100 THEN 100
    ELSE Float64Pct(ProcessedSum(r), TotalSum(r))

\* the step on which the task of job j meets a copy failure
C7_CopyStep(j) ==
    /\ "copy" \notin faultLog[j]
    /\ "copy" \in faultLog'[j]

\* C7: an asset that cannot be copied never fails the job: the step that meets
\* the failure still increments the processed counter of its category and
\* leaves status and error alone, and a task that met no other failure ends
\* completed, with no error and with each media category's processed count
\* equal to its total (the owner's data being unchanged during the export).
C7_CopyFailureIsNotFatal ==
    /\ [][\A j \in JobIds : C7_CopyStep(j) =>
            /\ task'[j].st.status = task[j].st.status
            /\ task'[j].st.error = task[j].st.error
            /\ task'[j].st.processedImages + task'[j].st.processedAudio
                  = task[j].st.processedImages + task[j].st.processedAudio + 1
            /\ task'[j].st.processedImages >= task[j].st.processedImages
            /\ task'[j].st.processedAudio >= task[j].st.processedAudio]_vars
    /\ [](\A j \in JobIds :
            (task[j].pc = "done" /\ faultLog[j] = {"copy"}) =>
                /\ task[j].st.status = "completed"
                /\ task[j].st.error = ""
                /\ task[j].st.processedImages = task[j].st.totalImages
                /\ task[j].st.processedAudio = task[j].st.totalAudio
                /\ lastWritten[j] = Marshal(task[j].st))

C7_Witness ==
    /\ task[1].pc = "done" /\ faultLog[1] = {"copy"}
    /\ task[1].st.status = "completed"
    /\ store[1].present /\ Unmarshal(store[1].data).status = "completed"
    /\ Unmarshal(store[1].data).processedImages + Unmarshal(store[1].data).processedAudio > 0
    /\ files[1].media < Unmarshal(store[1].data).processedImages
                          + Unmarshal(store[1].data).processedAudio

CountErrors == {"failed to count entries", "failed to count images",
                "failed to count audio"}

\* C8: when one of the three count queries fails the task goes straight to its
\* exit: its record is failed with a count error, no entry was processed, no
\* counter incremented, no CSV written and no archive built, and that failed
\* record is the one it saves last.
C8_CountFailureStopsTheJob ==
    \A j \in JobIds : "count" \in faultLog[j] =>
        /\ task[j].pc \in {"exit", "done"}
        /\ task[j].st.status = "failed"
        /\ task[j].st.error \in CountErrors
        /\ ProcessedSum(task[j].st) = 0
        /\ ~files[j].csv /\ files[j].media = 0 /\ ~files[j].zip
        /\ (task[j].pc = "done" /\ "save" \notin faultLog[j])
              => lastWritten[j] = Marshal(task[j].st)

C8_Witness ==
    /\ task[1].pc = "done" /\ "count" \in faultLog[1]
    /\ task[1].st.error = "failed to count audio"
    /\ store[1].present /\ Unmarshal(store[1].data).status = "failed"
    /\ CountEntries(db, task[1].uid) > 0

\* C9 (as stated): in every stored record with status running, progress is the
\* accounting function of that record's totals and processed counters.
C9_RunningProgressIsAccounting ==
    \A j \in JobIds :
        (store[j].present /\ Unmarshal(store[j].data).status = "running")
        => Unmarshal(store[j].data).progress = Accounting(Unmarshal(store[j].data))

\* C9 (amended): in every stored record with status running in which a
\* processed counter has been incremented, progress is the accounting function
\* of that record's totals and processed counters; the running records stored
\* before the first increment carry progress 0.
C9_ProgressIsAccountingAfterIncrement ==
    \A j \in JobIds :
        (store[j].present /\ Unmarshal(store[j].data).status = "running")
        => LET r == Unmarshal(store[j].data)
           IN  IF ProcessedSum(r) > 0
               THEN r.progress = Accounting(r)
               ELSE r.progress = 0

C9_Witness ==
    /\ store[1].present
    /\ Unmarshal(store[1].data).status = "running"
    /\ ProcessedSum(Unmarshal(store[1].data)) = 1
    /\ TotalSum(Unmarshal(store[1].data)) = 2
    /\ Unmarshal(store[1].data).progress = 50

\* round(100 * p / t) to the nearest integer, clamped to [0, 100]
RoundedPct(p, t) ==
    LET q == (200 * p + t) \div (2 * t)
    IN  IF q > 100 THEN 100 ELSE IF q < 0 THEN 0 ELSE q

\* C10 (as stated): recalculateAndPersistProgress sets progress to
\* clamp(round(100 * sum(processed) / sum(totals)), 0, 100) when
\* sum(totals) > 0, and to 100 when sum(totals) = 0.
C10_ProgressIsRounded ==
    \A j \in JobIds : task[j].pc = "recalculated" =>
        LET r == task[j].st
        IN  r.progress = IF TotalSum(r) = 0 THEN 100
                         ELSE RoundedPct(ProcessedSum(r), TotalSum(r))

\* C10 (amended): recalculateAndPersistProgress sets progress to 100 when
\* sum(totals) = 0 and otherwise to the percentage truncated, never rounded
\* up: progress * sum(totals) <= 100 * sum(processed) unless clamped to 100,
\* and progress is the floor of the exact percentage or, where the float64
\* product falls just short of a whole number, one below it.
C10_ProgressIsTruncated ==
    \A j \in JobIds : task[j].pc = "recalculated" =>
        LET r == task[j].st
            p == ProcessedSum(r)
            t == TotalSum(r)
        IN  /\ r.progress \in 0..100
            /\ Unmarshal(store[j].data) = r
            /\ t = 0 => r.progress = 100
            /\ (t > 0 /\ p >= t) => r.progress = 100
            /\ (t > 0 /\ p < t) =>
                  /\ r.progress * t <= 100 * p
                  /\ 100 * p < (r.progress + 2) * t
                  /\ (100 * p >= (r.progress + 1) * t) => (100 * p) % t = 0

C10_Witness ==
    /\ task[1].pc = "recalculated"
    /\ ProcessedSum(task[1].st) = 2 /\ TotalSum(task[1].st) = 3
    /\ task[1].st.progress = 66

\* C11: in every stored record written after the totals were persisted, each
\* processed counter is at most its total, also when the owner's entries,
\* images or audio change between the count queries and the streaming loop.
C11_ProcessedWithinTotals ==
    \A j \in JobIds :
        (/\ store[j].present
         /\ task[j].pc \notin {"idle", "load", "running", "mkdir", "countEntries",
                               "countImages", "countAudio", "saveTotals"})
        => LET r == Unmarshal(store[j].data)
           IN  /\ r.processedEntries <= r.totalEntries
               /\ r.processedImages <= r.totalImages
               /\ r.processedAudio <= r.totalAudio

\* the owner has no entries, no images and no audio
NoOwnerData ==
    /\ CountEntries(db, DataOwner) = 0
    /\ CountImages(db, DataOwner) = 0
    /\ CountAudio(db, DataOwner) = 0

\* the stored record of job j is completed at 100 and the archive holds the
\* tabular file and nothing else
EmptyExportDone(j) ==
    /\ store[j].present
    /\ Unmarshal(store[j].data).status = "completed"
    /\ Unmarshal(store[j].data).progress = 100
    /\ files[j].zip /\ files[j].csv
    /\ files[j].zipFiles = 1 /\ files[j].zipMedia = 0

\* C12: for an owner with no entries, no images and no audio, a submitted job
\* reaches status completed with progress 100, and its archive contains
\* exactly one file, the tabular file.
C12_EmptyExportCompletes ==
    /\ \A j \in 1..MaxJobs :
          (task[j].pc = "load" /\ NoOwnerData) ~> EmptyExportDone(j)
    /\ [](\A j \in JobIds :
            (task[j].pc = "done" /\ NoOwnerData) => EmptyExportDone(j))

C12_Witness ==
    /\ NoOwnerData
    /\ task[1].pc = "done"
    /\ EmptyExportDone(1)
    /\ TotalSum(Unmarshal(store[1].data)) = 0

\* C13: Submit answers with the jobId only after the pending record was saved,
\* and without waiting for any step of the background task; when the save
\* fails it answers with an error, no record exists for the job and no
\* background task is started.
C13_SubmitAnswersAfterSave ==
    response.op = "submit" =>
        /\ response.code \in {202, 400, 403, 500}
        /\ response.code = 202 =>
              /\ response.jobId \in JobIds /\ response.jobId = nextJob
              /\ store[response.jobId].present
              /\ store[response.jobId].ttl = exportJobTTL
              /\ Unmarshal(store[response.jobId].data).status = "pending"
              /\ Unmarshal(store[response.jobId].data).uid = response.uid
              /\ task[response.jobId].pc = "load"
        /\ response.code # 202 => response.jobId = 0
        /\ response.code = 500 =>
              /\ response.job = nextJob
              /\ ~store[response.job].present
              /\ lastWritten[response.job] = Marshal(ZeroStatus)
              /\ task[response.job] = IdleTask
        /\ response.code \in {400, 403} =>
              \A j \in JobIds : j > nextJob => ~store[j].present /\ task[j] = IdleTask

C13_Witness ==
    /\ response.op = "submit" /\ response.code = 500
    /\ faults > 0
    /\ response.job = 1 /\ ~store[1].present /\ task[1].pc = "idle"

\* C14: a Download by the owner of a job whose stored status is pending,
\* running or failed is answered 400 and goes no further; every file served
\* comes from a record read as completed, and no file is served for a job
\* whose task has failed.
C14_DownloadNeedsCompleted ==
    /\ [][\A j \in JobIds, u \in Users :
            (/\ store[j].present
             /\ StoredRecord(j).uid = u
             /\ StoredRecord(j).status \in {"pending", "running", "failed"})
            => /\ \A c \in Clients :
                     ~(/\ clients[c].phase = "idle"
                       /\ clients'[c].op = "download"
                       /\ clients'[c].job = j)
               /\ (/\ response'.op = "download" /\ response'.job = j
                   /\ response'.uid = u /\ clients' = clients)
                  => /\ response'.file = NoPath
                     /\ \/ response'.code = 400
                        \/ response'.code = 404 /\ faults' > faults]_vars
    /\ [](\A c \in Clients : clients[c].op = "download" =>
             /\ clients[c].snap.status = "completed"
             /\ clients[c].snap.uid = clients[c].uid)
    /\ [](response.file # NoPath => response.op = "download" /\ response.code = 200)
    /\ [](\A j \in JobIds :
             (task[j].pc \in {"exit", "done"} /\ task[j].st.status = "failed"
              /\ response.job = j)
             => response.file = NoPath)

C14_Witness ==
    /\ response.op = "download" /\ response.code = 400
    /\ response.job = 1 /\ response.uid = StoredRecord(1).uid
    /\ store[1].present /\ StoredRecord(1).status = "failed"
    /\ task[1].pc = "done"

\* C15: a Download by the owner of a completed job that got past the status
\* check ends with 410 when the file at zipPath does not exist, and otherwise
\* with that very file, the one at the zipPath of the job's record.
C15_GoneOrServed ==
    [][\A c \in Clients :
          (clients[c].op = "download" /\ clients'[c].phase = "idle")
          => IF FileExists(clients[c].snap.zipPath)
             THEN /\ response'.code = 200
                  /\ response'.file = clients[c].snap.zipPath
                  /\ response'.file = ZipPathOf(clients[c].uid, clients[c].job)
             ELSE /\ response'.code = 410
                  /\ response'.file = NoPath]_vars

\* C16: a Poll or Download of a jobId under which no record is stored (never
\* created, or expired) is answered 404 with nothing of the job, also when the
\* job had completed and its archive is still on disk, and stores nothing.
C16_NoRecordNotFound ==
    [][\A j \in JobIds : ~store[j].present =>
          /\ \A c \in Clients :
                ~(/\ clients[c].phase = "idle"
                  /\ clients'[c].phase = "loaded"
                  /\ clients'[c].job = j)
          /\ (/\ response'.op \in {"poll", "download"}
              /\ response'.job = j
              /\ clients' = clients)
             => /\ response'.code = 404
                /\ NoJobData(response')
                /\ store' = store
                /\ files' = files]_vars

C16_Witness ==
    /\ response.op = "poll" /\ response.code = 404 /\ response.job = 1
    /\ faults = 0
    /\ ~store[1].present
    /\ task[1].pc = "done" /\ task[1].st.status = "completed"
    /\ everTerminal[1]
    /\ FileExists(task[1].st.zipPath)

\* a step after which the key of job j holds a value it did not hold before,
\* or holds it for longer
C17_SaveStep(j) ==
    /\ store'[j].present
    /\ \/ ~store[j].present
       \/ store'[j].data # store[j].data
       \/ store'[j].ttl > store[j].ttl

\* C17: every successful save of a job's record, by Submit, by the task or by
\* an owner's Poll, leaves the record with the full TTL; the record's expiry
\* only moves closer as time passes, one tick at a time, and the record goes
\* only when a full TTL has passed since the last save: a record saved or
\* polled at least once per TTL never expires.
C17_SaveResetsExpiry ==
    /\ [][\A j \in JobIds :
            /\ C17_SaveStep(j) => store'[j].ttl = exportJobTTL
            /\ (/\ response'.job = j /\ faults' = faults
                /\ \/ response'.op = "poll" /\ response'.code = 200
                   \/ response'.op = "submit" /\ response'.code = 202)
               => store'[j].present /\ store'[j].ttl = exportJobTTL
            /\ (/\ faults' = faults
                /\ \/ task[j].pc \in {"running", "saveTotals", "complete", "exit"}
                      /\ task'[j].pc # task[j].pc
                   \/ ProcessedSum(task'[j].st) > ProcessedSum(task[j].st))
               => /\ store'[j].present /\ store'[j].ttl = exportJobTTL
                  /\ store'[j].data = Marshal(task'[j].st)
            /\ (store[j].present /\ store'[j].present)
               => store'[j].ttl >= store[j].ttl - 1
            /\ (store[j].present /\ ~store'[j].present)
               => /\ store[j].ttl = 1
                  /\ response' = NoResp /\ clients' = clients /\ task' = task]_vars
    /\ [](\A j \in JobIds : store[j].present => store[j].ttl \in 1..exportJobTTL)

C17_Witness ==
    /\ response.op = "poll" /\ response.code = 200 /\ response.job = 1
    /\ faults = 0
    /\ task[1].pc = "done"
    /\ store[1].present /\ store[1].ttl = exportJobTTL
    /\ StoredRecord(1).status = "completed"

\* C18: jobs submitted by the same owner get distinct jobIds, and a step of
\* one job's task (or the Submit that starts it) leaves every other job's
\* record, working directory, archive and task as they were; each record is
\* stored under its own jobId and names its own archive.
C18_JobsDoNotInterfere ==
    /\ [][\A j, k \in JobIds :
            (j # k /\ task'[j] # task[j])
            => /\ store'[k] = store[k]
               /\ files'[k] = files[k]
               /\ task'[k] = task[k]
               /\ lastWritten'[k] = lastWritten[k]]_vars
    /\ [][(response'.op = "submit" /\ response'.code = 202)
            => /\ response'.jobId = nextJob + 1
               /\ ~store[response'.jobId].present
               /\ task[response'.jobId] = IdleTask
               /\ files[response'.jobId] = NoFiles]_vars
    /\ [](\A j \in JobIds : store[j].present =>
            /\ StoredRecord(j).jobId = j
            /\ store[j].data = lastWritten[j]
            /\ StoredRecord(j).zipPath \in {NoPath, ZipPathOf(task[j].uid, j)})
    /\ [](\A j, k \in JobIds :
            (j # k /\ task[j].uid # "" /\ task[k].uid # "")
            => ZipPathOf(task[j].uid, j) # ZipPathOf(task[k].uid, k))

C18_Witness ==
    /\ task[1].pc = "done" /\ task[2].pc = "done"
    /\ task[1].uid = task[2].uid
    /\ store[1].present /\ store[2].present
    /\ StoredRecord(1).status = "completed" /\ StoredRecord(2).status = "completed"
    /\ StoredRecord(1).zipPath # StoredRecord(2).zipPath
    /\ files[1].zip /\ files[2].zip
    /\ files[1].zipFiles > 1 /\ files[1] = files[2]

\* C19: a stored record that is pending or running has no zipPath and no
\* error: a zipPath is stored only together with status completed, an error
\* only together with status failed.
C19_NothingLeaksBeforeTerminal ==
    \A j \in JobIds : store[j].present =>
        LET r == StoredRecord(j)
        IN  /\ r.status \in {"pending", "running", "completed", "failed"}
            /\ r.status \in {"pending", "running"} => r.zipPath = NoPath /\ r.error = ""
            /\ r.zipPath # NoPath => r.status = "completed"
            /\ r.error # "" => r.status = "failed"

C19_Witness ==
    /\ store[1].present
    /\ StoredRecord(1).status = "running"
    /\ StoredRecord(1).zipPath = NoPath
    /\ task[1].pc = "complete"
    /\ files[1].zip

\* C20: in every stored record completedAt is present exactly when the status
\* is completed or failed, and once a record with completedAt is stored every
\* later record of the job carries the same completedAt.
C20_CompletedAtIffTerminal ==
    /\ [](\A j \in JobIds : store[j].present =>
            (("completedAt" \in store[j].data.keys)
                <=> IsTerminal(StoredRecord(j).status)))
    /\ [][\A j \in JobIds :
            (/\ store[j].present /\ store'[j].present
             /\ "completedAt" \in store[j].data.keys)
            => /\ "completedAt" \in store'[j].data.keys
               /\ StoredRecord(j).completedAt
                     = Unmarshal(store'[j].data).completedAt]_vars

\* C21: for an owner with n entries and no media the job completes, and the
\* tabular file in the archive holds the header row and exactly n data rows:
\* every row given to the CSV writer is in the file when zipDirectory reads it.
C21_ArchivedCsvHasHeaderAndRows ==
    \A j \in JobIds :
        (/\ task[j].pc \in {"complete", "exit", "done"}
         /\ CountImages(db, task[j].uid) = 0
         /\ CountAudio(db, task[j].uid) = 0)
        => /\ task[j].pc = "done" => StoredRecord(j).status = "completed"
           /\ files[j].zip
           /\ files[j].zipCsvLines = 1 + CountEntries(db, task[j].uid)
           /\ files[j].zipMedia = 0

ListErrors == {"failed to fetch images", "failed to fetch audio"}

\* C22: when the query for an entry's images or audio fails the job is over:
\* the task goes to its exit with a failed record that names the failed query,
\* builds no archive, saves that failed record last, and no completed record
\* is ever stored for the job.
C22_ListFailureIsFatal ==
    \A j \in JobIds :
        (faultLog[j] \cap {"queryImages", "queryAudio"} # {}) =>
            /\ task[j].pc \in {"exit", "done"}
            /\ task[j].st.status = "failed"
            /\ task[j].st.error \in ListErrors
            /\ task[j].st.zipPath = NoPath
            /\ ~files[j].zip
            /\ store[j].present => StoredRecord(j).status # "completed"
            /\ Unmarshal(lastWritten[j]).status # "completed"
            /\ (task[j].pc = "done" /\ "save" \notin faultLog[j])
                  => lastWritten[j] = Marshal(task[j].st)

C22_Witness ==
    /\ task[1].pc = "done" /\ faultLog[1] = {"queryAudio"}
    /\ store[1].present /\ StoredRecord(1).status = "failed"
    /\ StoredRecord(1).error = "failed to fetch audio"
    /\ StoredRecord(1).processedEntries = 1
    /\ StoredRecord(1).processedImages = 1

\* C23: Submit creates a job only for the caller's own data: a request naming
\* another user's uid is answered 403, stores nothing and starts no task, and
\* every record created carries the authenticated uid as its owner.
C23_SubmitOnlyOwnData ==
    /\ [][(response'.op = "submit" /\ response'.owner # response'.uid)
            => /\ response'.code = IF response'.owner = "" THEN 400 ELSE 403
               /\ response'.jobId = 0
               /\ store' = store /\ task' = task /\ files' = files
               /\ nextJob' = nextJob /\ lastWritten' = lastWritten]_vars
    /\ [][(response'.op = "submit" /\ response'.code = 202)
            => /\ response'.owner = response'.uid
               /\ Unmarshal(store'[response'.jobId].data).uid = response'.uid
               /\ task'[response'.jobId].uid = response'.uid]_vars
    /\ [](\A j \in JobIds : store[j].present =>
            /\ StoredRecord(j).uid # ""
            /\ StoredRecord(j).uid = task[j].uid)

C23_Witness ==
    /\ response.op = "submit" /\ response.code = 403
    /\ response.uid = "bob" /\ response.owner = "alice"
    /\ store[1].present /\ StoredRecord(1).uid = "alice"
    /\ nextJob = 1

\* C24: a Poll or Download by a caller who is not the owner of the stored job
\* changes nothing: the stored record and its remaining expiry, the job's
\* files and its task are after the request what they were before it, and the
\* request goes no further than the owner check.
C24_ForeignRequestTouchesNothing ==
    [][/\ \A j \in JobIds :
            (/\ response'.op \in {"poll", "download"}
             /\ response'.job = j
             /\ store[j].present
             /\ StoredRecord(j).uid # response'.uid)
            => /\ store' = store
               /\ files' = files
               /\ task' = task
               /\ clients' = clients
       /\ \A c \in Clients :
            (clients[c].phase = "idle" /\ clients'[c].phase = "loaded")
            => clients'[c].snap.uid = clients'[c].uid]_vars

C24_Witness ==
    /\ response.op = "poll" /\ response.code = 403 /\ response.job = 1
    /\ store[1].present
    /\ StoredRecord(1).uid # response.uid
    /\ store[1].ttl < exportJobTTL
    /\ StoredRecord(1).status = "running"

\* C25: the task's writes follow the lifecycle: the running record is saved
\* before the count queries, the totals (status still running) before the first
\* entry is processed, every counter increment before the next unit of work,
\* and the terminal record last; the status of what the task has written never
\* goes back.
C25_WritesFollowLifecycle ==
    /\ [](\A j \in JobIds :
            (faultLog[j] \cap {"load", "save"} = {}) =>
               /\ task[j].pc \in {"mkdir", "countEntries", "countImages",
                                  "countAudio", "saveTotals"}
                  => /\ lastWritten[j] = Marshal(task[j].st)
                     /\ task[j].st.status = "running"
                     /\ TotalSum(task[j].st) = 0 /\ ProcessedSum(task[j].st) = 0
               /\ task[j].pc \in {"createCSV", "queryEntries", "entry",
                                  "queryImages", "image", "queryAudio", "audio",
                                  "zip", "complete"}
                  => /\ lastWritten[j] = Marshal(task[j].st)
                     /\ task[j].st.status = "running"
                     /\ task[j].st.totalEntries = task[j].totalEntries
                     /\ task[j].st.totalImages = task[j].totalImages
                     /\ task[j].st.totalAudio = task[j].totalAudio
               /\ task[j].pc = "done"
                  => /\ lastWritten[j] = Marshal(task[j].st)
                     /\ IsTerminal(task[j].st.status))
    /\ [][\A j \in JobIds :
            StatusRank(Unmarshal(lastWritten'[j]).status)
               >= StatusRank(Unmarshal(lastWritten[j]).status)]_vars

C25_Witness ==
    /\ task[1].pc = "queryAudio"
    /\ faultLog[1] = {}
    /\ lastWritten[1] = Marshal(task[1].st)
    /\ task[1].st.status = "running"
    /\ task[1].st.processedEntries = 1 /\ task[1].st.processedImages = 1
    /\ task[1].st.totalAudio = 1

\* C26: once the task has set status failed it does nothing but return: its
\* record stays as it is, no counter is incremented, no asset copied and no
\* archive built; the progress of the failed record is the progress of the
\* record it saved last before failing, and the failed record is what it
\* saves on its way out.
C26_FailureStopsAndFreezes ==
    /\ [][\A j \in JobIds : task[j].st.status = "failed" =>
            /\ task'[j].st = task[j].st
            /\ task[j].pc \in {"exit", "done"} /\ task'[j].pc \in {"exit", "done"}
            /\ files'[j].media = files[j].media
            /\ files'[j].zip => files[j].zip
            /\ files'[j].zipFiles <= files[j].zipFiles]_vars
    /\ [](\A j \in JobIds :
            (task[j].st.status = "failed" /\ "save" \notin faultLog[j]) =>
               /\ task[j].pc = "exit"
                  => /\ Unmarshal(lastWritten[j]).status = "running"
                     /\ Unmarshal(lastWritten[j]).progress = task[j].st.progress
                     /\ ProcessedSum(Unmarshal(lastWritten[j])) = ProcessedSum(task[j].st)
               /\ task[j].pc = "done"
                  => lastWritten[j] = Marshal(task[j].st))

C26_Witness ==
    /\ task[1].pc = "done"
    /\ "save" \notin faultLog[1]
    /\ store[1].present
    /\ StoredRecord(1).status = "failed"
    /\ StoredRecord(1).progress > 0 /\ StoredRecord(1).progress < 100
    /\ ProcessedSum(StoredRecord(1)) < TotalSum(StoredRecord(1))

\* C27: when the tags or the locations of an entry cannot be read the job is
\* over: the task goes to its exit with a failed record naming the failed
\* fetch, and no row with empty tags or locations put in their place is
\* written.
C27_MetadataFailureIsFatal ==
    \A j \in JobIds : "fetch" \in faultLog[j] =>
        /\ task[j].pc \in {"exit", "done"}
        /\ task[j].st.status = "failed"
        /\ task[j].st.error \in {"failed to fetch tags", "failed to fetch locations"}
        /\ files[j].csvBlank = 0

\* C28: a job whose entry stream, or one of whose image or audio listings,
\* broke part-way through the iteration does not end completed.
C28_BrokenStreamNotCompleted ==
    \A j \in JobIds : "stream" \in faultLog[j] =>
        /\ task[j].st.status # "completed"
        /\ store[j].present => StoredRecord(j).status # "completed"

\* C29: a task that loaded its record returns, on every path, with a record
\* in memory that is completed or failed: that is the record its deferred
\* final save attempts to store, whether or not the save succeeds.
C29_FinalSaveIsTerminal ==
    \A j \in JobIds :
        /\ task[j].pc = "exit" => IsTerminal(task[j].st.status)
        /\ (task[j].pc = "done" /\ "load" \notin faultLog[j])
              => /\ IsTerminal(task[j].st.status)
                 /\ task[j].st.status = "completed" <=> task[j].st.zipPath # NoPath
        /\ (task[j].pc = "done" /\ faultLog[j] \cap {"load", "save"} = {})
              => lastWritten[j] = Marshal(task[j].st)

C29_Witness ==
    /\ task[1].pc = "done"
    /\ faultLog[1] = {"zip"}
    /\ task[1].st.status = "failed"
    /\ task[1].st.processedEntries > 0
    /\ store[1].present /\ StoredRecord(1).status = "failed"

\* C30: what a Poll or Download of user A's stored job answers to another
\* user B is fixed by the request, the owner's uid and whether Redis answered:
\* it is the same in all states, whatever the record's status, progress,
\* counters, zipPath and error and whether the archive exists.
C30_ForeignAnswerIsConstant ==
    [][\A j \in JobIds :
          (/\ response'.op \in {"poll", "download"}
           /\ response'.job = j
           /\ store[j].present
           /\ StoredRecord(j).uid # response'.uid)
          => response' =
                IF faults' > faults
                THEN ErrResp(response'.op, response'.uid, j, "", 404)
                ELSE ErrResp(response'.op, response'.uid, j, StoredRecord(j).uid, 403)]_vars

C30_Witness ==
    /\ response = ErrResp("download", "bob", 1, "alice", 403)
    /\ store[1].present
    /\ StoredRecord(1).status = "completed"
    /\ StoredRecord(1).zipPath # NoPath
    /\ ~files[1].zip

====
